---- MODULE Spec2Model ----
(***************************************************************************)
(* A model of opine's Response (src/src/response.ts): the header set, the  *)
(* status, the body slot, and the calls the response makes on the          *)
(* transport (req.respond), on the configured ETag function and on the     *)
(* continuation.                                                           *)
(***************************************************************************)
EXTENDS Integers, Sequences, FiniteSets, TLC

\* Operations per exchange that the model explores: over the whole interface
\* of the response, and over the operations that lead to a send.
MaxOps == 2
MaxSendOps == 3
\* Calls per exchange where files are transferred, and changes other
\* processes make to the file meanwhile.
MaxFileOps == 2
MaxFileChanges == 1
\* Calls per exchange where the response is negotiated.
MaxFormatOps == 2
\* Calls per exchange that ends in a JSONP response.
MaxJsonpOps == 2
\* Calls per exchange that goes through the static file server.
MaxStaticOps == 2
\* Calls per exchange where the validator of the response is at stake.
MaxEtagOps == 3
\* The length of the strings collapseLeadingSlashes is applied to, and how
\* many times it is applied to its own result.
MaxLen == 4
MaxApplications == 2

VARIABLES
  status,     \* Response.status
  headers,    \* Response.headers: lower-cased name -> value, Absent when unset
  body,       \* Response.body
  sent,       \* what req.respond was called with, in order: snapshots of the response
  etagCalls,  \* arguments the configured ETag function was called with, in order
  nextCalls,  \* arguments the continuation req.next was called with, in order
  invoked,    \* format handlers invoked, in order
  req,        \* the request of the exchange: method, conditional header, Accept,
              \* and the callback parameter of its query
  app,        \* the application settings read by the response
  op,         \* the last operation called on the response and how it ended
  pre,        \* the response as it was when the last operation was called
  nops,       \* operations called so far
  budget,     \* operations the exchange may call
  task,       \* the asynchronous call in progress (sendFile, download) and its position
  file,       \* the file on disk that the paths name
  options,    \* the options serveStatic was set up with: fallthrough, redirect, before
  handler,    \* the invocation of the serveStatic handler for this exchange: its
              \* position, its local variables, and the calls it has made
  other,      \* the exchange that is in progress at the same time, suspended
  slashes     \* a string collapseLeadingSlashes is applied to, as its characters,
              \* and the results of applying it again and again

vars ==
  <<status, headers, body, sent, etagCalls, nextCalls, invoked, req, app, op, pre,
    nops, budget, task, file, options, handler, other, slashes>>

----------------------------------------------------------------------------
\* Values

Absent == "<absent>"

HeaderNames ==
  { "content-type", "content-length", "transfer-encoding", "etag",
    "content-disposition", "vary", "last-modified", "x-content-type-options",
    "set-cookie", "warning", "allow", "location", "content-security-policy" }

NoHeaders == [h \in HeaderNames |-> Absent]

\* A JavaScript value handed to the response: its kind and its content.
Val(t, v) == [t |-> t, v |-> v]
Str(s) == Val("string", s)
Undefined == Val("undefined", "")
Null == Val("null", "null")
True == Val("boolean", "true")
Num42 == Val("number", "42")
Bytes == Val("Uint8Array", "bytes")
Reader == Val("Reader", "stream")
Obj == Val("object", "{\"a\":1}")

\* typeof body
typeof(b) ==
  CASE b.t = "string" -> "string"
    [] b.t = "boolean" -> "boolean"
    [] b.t = "number" -> "number"
    [] b.t = "undefined" -> "undefined"
    [] OTHER -> "object"

\* if (body): the empty string and undefined are falsy, byte arrays, readers
\* and non-empty strings are truthy.
Truthy(b) ==
  CASE b.t \in {"undefined", "null"} -> FALSE
    [] b.t = "string" -> b.v # ""
    [] OTHER -> TRUE

\* stringify(body, replacer, spaces, escape) under the default settings:
\* JSON.stringify, which quotes a string.
stringify(b) ==
  IF b.t = "string" THEN "\"" \o b.v \o "\"" ELSE b.v

\* field.toLowerCase(), which is also how Headers keys every name.
toLowerCase(f) ==
  CASE f = "Content-Type" -> "content-type"
    [] f = "Content-Length" -> "content-length"
    [] f = "Transfer-Encoding" -> "transfer-encoding"
    [] f = "ETag" -> "etag"
    [] f = "Content-Disposition" -> "content-disposition"
    [] f = "Vary" -> "vary"
    [] f = "Last-Modified" -> "last-modified"
    [] f = "X-Content-Type-Options" -> "x-content-type-options"
    [] f = "Set-Cookie" -> "set-cookie"
    [] f = "Warning" -> "warning"
    [] f = "Allow" -> "allow"
    [] f = "Location" -> "location"
    [] f = "Content-Security-Policy" -> "content-security-policy"
    [] OTHER -> f

\* contentType(type) || "": the full Content-Type of a type, an extension or a
\* Content-Type, and "" for what the table does not know.
JsonType == "application/json; charset=utf-8"
HtmlType == "text/html; charset=utf-8"
TextType == "text/plain; charset=utf-8"
BinType == "application/octet-stream"
ScriptType == "text/javascript; charset=utf-8"
PdfType == "application/pdf"

contentType(t) ==
  CASE t \in {"html", ".html", "text/html", HtmlType} -> HtmlType
    [] t \in {"json", ".json", "application/json", JsonType} -> JsonType
    [] t \in {"txt", ".txt", "text/plain", TextType} -> TextType
    [] t \in {"bin", ".bin", BinType} -> BinType
    [] t \in {"text/javascript", ScriptType} -> ScriptType
    [] t \in {"pdf", ".pdf", PdfType} -> PdfType
    [] OTHER -> ""

----------------------------------------------------------------------------
\* The response while an operation runs: the fields of the Response, the
\* calls made so far, whether the operation threw, and what req.fresh
\* answered when the operation read it.

Cur ==
  [ status |-> status, headers |-> headers, body |-> body, sent |-> sent,
    etagCalls |-> etagCalls, threw |-> FALSE, fresh |-> FALSE ]

Throw(r) == [r EXCEPT !.threw = TRUE]

\* get(field): this.headers.get(field.toLowerCase()) || ""
get(r, field) ==
  LET v == r.headers[toLowerCase(field)] IN IF v = Absent THEN "" ELSE v

\* type(type): this.headers.set("content-type", contentType(type) || "")
type(r, t) == [r EXCEPT !.headers["content-type"] = contentType(t)]

\* set(field, value)
set(r, field, value) ==
  LET lowerCaseField == toLowerCase(field) IN
  IF lowerCaseField = "content-type"
    THEN type(r, value)
    ELSE [r EXCEPT !.headers[lowerCaseField] = value]

\* append(field, value): Headers.append joins the values of one name.
append(r, field, value) ==
  LET name == toLowerCase(field)
      old == r.headers[name]
  IN [r EXCEPT !.headers[name] = IF old = Absent THEN value ELSE old \o ", " \o value]

\* unset(field): this.headers.delete(field)
unset(r, field) == [r EXCEPT !.headers[toLowerCase(field)] = Absent]

\* setStatus(code)
setStatus(r, code) == [r EXCEPT !.status = code]

\* The fields of a Vary header value.
VaryFields(v) ==
  CASE v \in {Absent, ""} -> <<>>
    [] v = "*" -> <<"*">>
    [] v = "Accept" -> <<"Accept">>
    [] v = "Origin" -> <<"Origin">>
    [] v = "Origin, Accept" -> <<"Origin", "Accept">>
    [] v = "Accept, Origin" -> <<"Accept", "Origin">>
    [] OTHER -> <<v>>

\* vary(field): the vary module appends the field unless the header is "*"
\* or lists it already; the field "*" replaces the header.
vary(r, field) ==
  LET old == r.headers["vary"]
      fields == VaryFields(old)
      listed == \E i \in 1..Len(fields) : fields[i] \in {field, "*"}
      new == IF listed THEN old
             ELSE IF field = "*" THEN "*"
             ELSE IF fields = <<>> THEN field
             ELSE old \o ", " \o field
  IN [r EXCEPT !.headers["vary"] = new]

\* cookie(cookie): the path defaults to "/", and setCookie appends the
\* serialized cookie to Set-Cookie.
cookie(r, c) ==
  LET path == IF c.path = "" THEN "/" ELSE c.path
  IN append(r, "Set-Cookie", c.name \o "=" \o c.value \o "; Path=" \o path)

\* clearCookie(cookie): deleteCookie appends an expired cookie of that name.
clearCookie(r, name) == append(r, "Set-Cookie", name \o "=; Expires=0")

\* The snapshot of the response that req.respond(this) is handed.
Snapshot(r) == [status |-> r.status, headers |-> r.headers, body |-> r.body]

\* end(body): if (body) this.body = body; await this.req.respond(this)
end(r, b) ==
  LET r1 == IF Truthy(b) THEN [r EXCEPT !.body = b] ELSE r
  IN [r1 EXCEPT !.sent = Append(r1.sent, Snapshot(r1))]

\* The configured ETag function applied to a chunk: a weak tag of its
\* content, or nothing for a function that declines.
etagFn(chunk) ==
  IF app.etagFn = "weak" THEN "W/" \o chunk.v ELSE ""   \* "declines": no tag

\* typeof chunk.length
typeofLength(chunk) ==
  IF chunk.t \in {"string", "Uint8Array"} THEN "number" ELSE "undefined"

\* etag(chunk)
etag(r, chunk) ==
  IF app.etagFn # "none" /\ typeofLength(chunk) # ""
    THEN LET tag == etagFn(chunk)
             r1 == [r EXCEPT !.etagCalls = Append(r.etagCalls, chunk)]
         IN IF tag # "" THEN set(r1, "ETag", tag) ELSE r1
    ELSE r

\* req.fresh: the request's conditional header matches the response's
\* validator.
fresh(r) == req.ifNoneMatch # "" /\ req.ifNoneMatch = get(r, "ETag")

\* send(body) with etag(chunk) called whether or not an ETag is set.
sendChunkTagsAlways(r, chunk) ==
  LET r1 == IF chunk.t = "string" /\ get(r, "Content-Type") = ""
              THEN type(r, "html") ELSE r
      r2 == IF chunk.t \in {"string", "Uint8Array"} THEN etag(r1, chunk) ELSE r1
      isFresh == fresh(r2)
      r3 == [r2 EXCEPT !.fresh = isFresh,
                       !.status = IF isFresh THEN 304 ELSE r2.status]
      noEntity == r3.status = 204 \/ r3.status = 304
      r4 == IF noEntity
              THEN unset(unset(unset(r3, "Content-Type"), "Content-Length"),
                         "Transfer-Encoding")
              ELSE r3
      chunk4 == IF noEntity THEN Str("") ELSE chunk
  IN IF req.method = "HEAD" THEN end(r4, Undefined) ELSE end(r4, chunk4)

\* send(body), from the Content-Type of a string chunk to the transmission.
sendChunk(r, chunk) ==
  LET r1 == IF chunk.t = "string" /\ get(r, "Content-Type") = ""
              THEN type(r, "html") ELSE r
      r2 == IF get(r1, "ETag") = "" /\ chunk.t \in {"string", "Uint8Array"}
              THEN etag(r1, chunk) ELSE r1
      isFresh == fresh(r2)
      r3 == [r2 EXCEPT !.fresh = isFresh,
                       !.status = IF isFresh THEN 304 ELSE r2.status]
      noEntity == r3.status = 204 \/ r3.status = 304
      r4 == IF noEntity
              THEN unset(unset(unset(r3, "Content-Type"), "Content-Length"),
                         "Transfer-Encoding")
              ELSE r3
      chunk4 == IF noEntity THEN Str("") ELSE chunk
  IN IF req.method = "HEAD" THEN end(r4, Undefined) ELSE end(r4, chunk4)

RECURSIVE send(_, _)
RECURSIVE json(_, _)

\* send(body) without the return of "return this.json(body)" at the boolean
\* and number cases: the switch falls through to the object case, which
\* calls json once more.
sendFallsThrough(r, b) ==
  LET bodyArg == IF b.t = "undefined" THEN Str("") ELSE b IN
  CASE typeof(bodyArg) = "string" -> sendChunk(r, bodyArg)
    [] typeof(bodyArg) \in {"boolean", "number"} -> json(json(r, bodyArg), bodyArg)
    [] OTHER ->
         IF bodyArg.t \in {"Uint8Array", "Reader"}
           THEN sendChunk(IF get(r, "Content-Type") = "" THEN type(r, "bin") ELSE r,
                          bodyArg)
         ELSE IF bodyArg.t = "null" THEN Throw(r)
         ELSE json(r, bodyArg)

\* send(body = ""): the classification of the body.
send(r, b) ==
  LET bodyArg == IF b.t = "undefined" THEN Str("") ELSE b IN
  CASE typeof(bodyArg) = "string" -> sendChunk(r, bodyArg)
    [] typeof(bodyArg) \in {"boolean", "number"} -> json(r, bodyArg)
    [] OTHER ->
         IF bodyArg.t = "Uint8Array"
           THEN sendChunk(IF get(r, "Content-Type") = "" THEN type(r, "bin") ELSE r,
                          bodyArg)
         ELSE IF bodyArg.t = "null"
           THEN Throw(r)    \* (body as Deno.Reader).read of null: a TypeError
         ELSE IF bodyArg.t = "Reader"
           THEN sendChunk(IF get(r, "Content-Type") = "" THEN type(r, "bin") ELSE r,
                          bodyArg)
         ELSE json(r, bodyArg)

\* json(body)
json(r, b) ==
  LET text == Str(stringify(b))
      r1 == IF get(r, "Content-Type") = "" THEN type(r, "application/json") ELSE r
  IN send(r1, text)

\* callback.replace(/[^\[\]\w$.]/g, ""): the characters of a callback name
\* outside the identifier set are dropped.
restrictCharset(callback) ==
  CASE callback = "al(ert)" -> "alert"
    [] OTHER -> callback

\* body.replace(/\u2028/g, "\\u2028").replace(/\u2029/g, "\\u2029"), with <LS>
\* standing for the line separator.
escapeSeparators(text) ==
  CASE text = "\"a<LS>b\"" -> "\"a\\u2028b\""
    [] OTHER -> text

\* The query parameter after "if (Array.isArray(callback)) callback =
\* callback[0]"; a repeated parameter is an array of strings, held as its
\* first item.
firstOfArray(callback) ==
  IF callback.t = "array" THEN Str(callback.v) ELSE callback

\* jsonp(body)
jsonp(r, b) ==
  LET text == stringify(b)
      callback == firstOfArray(req.callback)
  IN IF typeof(callback) = "string" /\ callback.v # ""
       THEN LET r1 == type(set(r, "X-Content-Type-Options", "nosniff"), "text/javascript")
                name == restrictCharset(callback.v)
                script == "/**/ typeof " \o name \o " === 'function' && " \o name
                            \o "(" \o escapeSeparators(text) \o ");"
            IN send(r1, Str(script))
     ELSE IF get(r, "Content-Type") = ""
       THEN send(set(set(r, "X-Content-Type-Options", "nosniff"),
                     "Content-Type", "application/json"),
                 Str(text))
     ELSE send(r, Str(text))

\* extname(path)
extname(path) ==
  CASE path \in {"/x/report.pdf", "report.pdf"} -> ".pdf"
    [] path \in {"q3.txt", "old.txt", "/srv/file.txt"} -> ".txt"
    [] OTHER -> ""

\* basename(path)
basename(path) ==
  CASE path = "/x/report.pdf" -> "report.pdf"
    [] path = "/x/notes" -> "notes"
    [] OTHER -> path

\* path.startsWith("file:") ? fromFileUrl(path) : path
fromFileUrl(path) ==
  CASE path = "file:///x/report.pdf" -> "/x/report.pdf"
    [] OTHER -> path

\* contentDisposition(type, filename)
contentDisposition(kind, filename) ==
  IF filename = "" THEN kind ELSE kind \o "; filename=" \o filename

\* attachment(filename)
attachment(r, filename) ==
  LET r1 == IF filename # "" THEN type(r, extname(filename)) ELSE r
  IN set(r1, "Content-Disposition", contentDisposition("attachment", filename))

\* What Deno.readFile and Deno.stat answer for the file as it is now.
FileBytes == Val("Uint8Array", "bytes" \o ToString(file.version))
FileInfo ==
  [ mtime |-> IF file.hasMtime THEN "mtime" \o ToString(file.version) ELSE "",
    chunk |-> Val("FileInfo", "stat" \o ToString(file.version)) ]

\* sendFile(path) with this.type(extname(path)) moved before the read.
sendFileTypesBeforeRead(r, path) == type(r, extname(path))

\* sendFile(path), up to the await of Deno.readFile: the response is not
\* touched.
sendFileBeforeRead(r, path) == r

\* sendFile(path), after both awaits: the headers from the metadata, the
\* Content-Type from the extension, and the send of the bytes.
sendFileAfterStat(r, path, bytes, stats) ==
  LET r1 == IF stats.mtime # "" THEN set(r, "Last-Modified", stats.mtime) ELSE r
      r2 == IF get(r1, "ETag") = "" THEN etag(r1, stats.chunk) ELSE r1
      r3 == type(r2, extname(path))
  IN send(r3, bytes)

\* download(path, filename), up to the await of sendFile.
downloadBeforeSendFile(r, path, filename) ==
  set(r, "Content-Disposition",
      contentDisposition("attachment",
                         basename(IF filename # "" THEN filename ELSE path)))

\* download's catch without the unset: the header stays.
downloadCatchKeepsHeader(r) == r

\* download's catch: this.unset("Content-Disposition"); throw err
downloadCatch(r) == unset(r, "Content-Disposition")

\* What the caller of the asynchronous call sees when sendFile has thrown.
Rejected(r) ==
  Throw(IF task.name = "download" THEN downloadCatch(r) ELSE r)

\* normalizeType(type).value: the media type of a key of format.
normalizeType(key) ==
  CASE key = "json" -> "application/json"
    [] key = "html" -> "text/html"
    [] key = "text" -> "text/plain"
    [] OTHER -> key

\* normalizeTypes(keys).map(o => o.value)
normalizeTypes(keys) == [i \in 1..Len(keys) |-> normalizeType(keys[i])]

\* Whether the request's Accept header accepts a media type; a request
\* without the header accepts every type.
Acceptable(mime) == req.accept \in {"", "*/*", mime}

\* req.accepts(keys): the best match among the keys, as a list of at most one.
accepts(keys) ==
  LET matching == {i \in 1..Len(keys) : Acceptable(normalizeType(keys[i]))}
  IN IF matching = {} THEN <<>>
     ELSE <<keys[CHOOSE i \in matching : \A j \in matching : i <= j]>>

NoError == [status |-> 0, types |-> <<>>]

\* format(obj) with err.types = keys: the offered keys as written, not
\* normalized.
formatWithRawTypes(r, obj) ==
  LET keys == obj.keys
      found == IF Len(keys) > 0 THEN accepts(keys) ELSE <<>>
      key == IF found = <<>> THEN "" ELSE found[1]
      r1 == vary(r, "Accept")
  IN IF key # ""
       THEN [res |-> set(r1, "Content-Type", normalizeType(key)),
             handler |-> key, error |-> NoError]
     ELSE IF obj.hasDefault
       THEN [res |-> r1, handler |-> "default", error |-> NoError]
     ELSE [res |-> r1, handler |-> "",
           error |-> [status |-> 406, types |-> keys]]

\* format(obj): obj.keys are the keys of obj other than default, in order
\* ({ default: fn, ...rest } = obj); the answer is the response, the handler
\* invoked ("" for none) and the error handed to next (NoError for none).
format(r, obj) ==
  LET keys == obj.keys
      found == IF Len(keys) > 0 THEN accepts(keys) ELSE <<>>
      key == IF found = <<>> THEN "" ELSE found[1]
      r1 == vary(r, "Accept")
  IN IF key # ""
       THEN [res |-> set(r1, "Content-Type", normalizeType(key)),
             handler |-> key, error |-> NoError]
     ELSE IF obj.hasDefault
       THEN [res |-> r1, handler |-> "default", error |-> NoError]
     ELSE [res |-> r1, handler |-> "",
           error |-> [status |-> 406, types |-> normalizeTypes(keys)]]

\* STATUS_TEXT.get(code) || String(code)
statusText(code) ==
  CASE code = 200 -> "OK"
    [] code = 204 -> "No Content"
    [] code = 304 -> "Not Modified"
    [] code = 404 -> "Not Found"
    [] OTHER -> "code"

\* sendStatus(code)
sendStatus(r, code) == send(type(setStatus(r, code), "txt"), Str(statusText(code)))

----------------------------------------------------------------------------
\* serveStatic (src/src/middleware/serveStatic.ts).  An invocation of the
\* handler is the response, the local variables and position of the call
\* (frame), the calls made on the continuation (next), and the sendFile it
\* awaits (task).  Each operator runs the handler from one await to the next.

\* createError(code)
createError(code) == [status |-> code, types |-> <<>>]

\* The error Deno.stat and Deno.readFile throw for a path that names nothing.
NotFound == [status |-> 0, types |-> <<"Deno.errors.NotFound">>]

\* next(err), and next() as next(NoError)
next(x, err) == [x EXCEPT !.next = Append(@, err)]

\* The handler returns.
returns(x) == [x EXCEPT !.frame.pc = "done"]

\* The handler throws: the promise of the invocation rejects.
rejects(x) == [x EXCEPT !.frame.pc = "done", !.frame.rejected = TRUE]

\* The root directory served, and what lies under it: two directories, one
\* regular file (the file of the variable file), and nothing else.
RootPath == "/srv"
FilePath == "/srv/file.txt"
Directories == {"/srv", "/srv/", "/srv/dir", "/srv/dir/"}

\* str.substr(-1) === "/" and fullPath.endsWith("/")
endsWithSlash(str) ==
  str \in {"/", "/assets/", "/dir/", "//dir/", "/srv/", "/srv/dir/", "/srv/file.txt/"}

\* join(rootPath, path): the two joined and normalized; a trailing slash is
\* kept, repeated slashes are not.
join(root, path) ==
  CASE path = "" -> root
    [] path \in {"//dir", "//dir/"} -> root \o (IF endsWithSlash(path) THEN "/dir/" ELSE "/dir")
    [] OTHER -> root \o path

\* The characters of a path, and the path that characters spell, for the
\* paths the redirect is made to.
Chars(str) ==
  CASE str = "/dir/" -> <<"/", "d", "i", "r", "/">>
    [] str = "//dir/" -> <<"/", "/", "d", "i", "r", "/">>
    [] str = "/assets/" -> <<"/", "a", "s", "s", "e", "t", "s", "/">>
    [] OTHER -> <<>>

Text(chars) ==
  CASE chars = <<"/", "d", "i", "r", "/">> -> "/dir/"
    [] chars = <<"/", "/", "d", "i", "r", "/">> -> "//dir/"
    [] chars = <<"/", "a", "s", "s", "e", "t", "s", "/">> -> "/assets/"
    [] OTHER -> ""

\* for (; i < str.length; i++) if (str.charCodeAt(i) !== 0x2f) break;
\* over a string held as the sequence of its characters: the i it ends with.
RECURSIVE skipSlashes(_, _)
skipSlashes(str, i) ==
  IF i < Len(str) /\ str[i + 1] = "/" THEN skipSlashes(str, i + 1) ELSE i

\* collapseLeadingSlashes(str) that drops one slash: str.substr(1)
collapseOneSlash(str) ==
  LET i == skipSlashes(str, 0)
  IN IF i > 1 THEN Tail(str) ELSE str

\* collapseLeadingSlashes(str): i > 1 ? "/" + str.substr(i) : str
collapseLeadingSlashes(str) ==
  LET i == skipSlashes(str, 0)
  IN IF i > 1 THEN <<"/">> \o SubSeq(str, i + 1, Len(str)) ELSE str

\* encodeUrl(url): characters outside the URL set are percent-encoded.
encodeUrl(url) ==
  CASE url = "/a b/" -> "/a%20b/"
    [] OTHER -> url

\* escapeHtml(str)
escapeHtml(str) ==
  CASE str = "/a&b/" -> "/a&amp;b/"
    [] OTHER -> str

\* createHtmlDocument(title, body)
createHtmlDocument(title, text) ==
  "<!DOCTYPE html>\n" \o "<html lang=\"en\">\n" \o "<head>\n"
    \o "<meta charset=\"utf-8\">\n" \o "<title>" \o title \o "</title>\n"
    \o "</head>\n" \o "<body>\n" \o "<pre>" \o text \o "</pre>\n"
    \o "</body>\n" \o "</html>\n"

\* req.method !== "GET" && req.method !== "HEAD", with every method allowed.
methodAllowedAlways(method) == TRUE

\* !(req.method !== "GET" && req.method !== "HEAD")
methodAllowed(method) == method \in {"GET", "HEAD"}

\* const forwardError = !fallthrough, with the errors always forwarded.
forwardErrorAlways(fallthrough) == TRUE

\* const forwardError = !fallthrough
forwardErrorOf(fallthrough) == ~fallthrough

\* The path served, made empty for every request to the mount point,
\* whatever the original URL ends with.
pathOfEveryMountRequest(url) ==
  IF url.pathname = "/" THEN "" ELSE url.pathname

\* The path served: parseUrl(req).pathname, or "" for a request to the mount
\* point whose original URL has no trailing slash.
pathOf(url) ==
  IF url.pathname = "/" /\ ~endsWithSlash(url.original) THEN "" ELSE url.pathname

\* The handler, from its call to the await of Deno.stat.
serveStaticCall(x) ==
  IF ~methodAllowed(req.method)
    THEN IF options.fallthrough
           THEN returns(next(x, NoError))
           ELSE returns([x EXCEPT !.res =
                           end(set([x.res EXCEPT !.status = 405], "Allow", "GET, HEAD"),
                               Undefined)])
    ELSE LET path == pathOf(req.url)
             fullPath == join(RootPath, path)
         IN [x EXCEPT !.frame.pc = "stat",
                      !.frame.forwardError = forwardErrorOf(options.fallthrough),
                      !.frame.path = path,
                      !.frame.fullPath = fullPath,
                      !.frame.fsCalls = Append(@, fullPath)]

\* What Deno.stat(fullPath) answers as the file system is now.
StatAnswer(fullPath) ==
  [ kind |-> IF fullPath \in Directories THEN "directory"
             ELSE IF fullPath = FilePath /\ file.exists THEN "file"
             ELSE "error",
    info |-> FileInfo ]

\* The catch of the stat that calls next() whatever forwardError is.
statFailedSilently(x) == returns(next(x, NoError))

\* catch (err) of the stat: next(err) or next()
statFailed(x) ==
  returns(next(x, IF x.frame.forwardError THEN NotFound ELSE NoError))

\* The directory listener that calls next() whatever forwardError is.
notFoundSilently(x) == returns(next(x, NoError))

\* notFound(res, req, next, forwardError)
notFound(x) ==
  returns(next(x, IF x.frame.forwardError THEN createError(404) ELSE NoError))

\* The this of the directory listener: serveStatic calls onDirectory(res,
\* req, next, forwardError, fullPath) as a plain function of a module, so
\* this is undefined and has no req.
ListenerThis == [bound |-> FALSE, req |-> req]

\* redirect(res, req, next, forwardError, fullPath)
redirect(x, this) ==
  IF endsWithSlash(x.frame.fullPath)
    THEN returns(next(x, IF x.frame.forwardError THEN createError(404) ELSE NoError))
  ELSE IF ~this.bound
    THEN rejects(x)        \* original(this.req): a TypeError
  ELSE LET loc == encodeUrl(
                    Text(collapseLeadingSlashes(Chars(this.req.url.original \o "/"))))
           doc == createHtmlDocument(
                    "Redirecting",
                    "Redirecting to <a href=\"" \o escapeHtml(loc) \o "\">"
                      \o escapeHtml(loc) \o "</a>")
           r1 == [x.res EXCEPT !.status = 301]
           r2 == set(r1, "Content-Security-Policy", "default-src 'none'")
           r3 == set(r2, "X-Content-Type-Options", "nosniff")
           r4 == set(r3, "Location", loc)
       IN returns([x EXCEPT !.res = send(r4, Str(doc))])

\* onDirectory: the listener the options select.
onDirectory(x) ==
  IF options.redirect THEN redirect(x, ListenerThis) ELSE notFound(x)

\* res.sendFile(fullPath), up to its first await.
callSendFile(x) ==
  [x EXCEPT !.res = sendFileBeforeRead(x.res, fromFileUrl(x.frame.fullPath)),
            !.task = [name |-> "sendFile", pc |-> "read",
                      path |-> fromFileUrl(x.frame.fullPath), bytes |-> Undefined],
            !.frame.pc = "sendFile"]

\* if (before): the hook is never called.
hasBeforeNever(before) == FALSE

\* if (before)
hasBefore(before) == before

\* The handler resumed with the answer of Deno.stat, up to its next await.
afterStat(x, answer) ==
  LET x1 == [x EXCEPT !.frame.stat = answer] IN
  IF answer.kind = "error" THEN statFailed(x1)
  ELSE IF answer.kind = "directory" THEN onDirectory(x1)
  ELSE IF hasBefore(options.before)
    THEN [x1 EXCEPT !.frame.pc = "before",
                    !.frame.beforeCalls =
                       Append(@, [ path |-> x1.frame.path, stat |-> answer.info,
                                   read |-> x1.task.bytes # Undefined,
                                   sent |-> x1.res.sent ])]
  ELSE callSendFile(x1)

\* The handler resumed when the promise of the before hook resolves.
afterBefore(x) == callSendFile(x)

\* The handler resumed when the promise of sendFile settles.
afterSendFile(x, threw) ==
  IF threw
    THEN returns(next(x, IF x.frame.forwardError THEN NotFound ELSE NoError))
    ELSE returns(x)

----------------------------------------------------------------------------
\* The exchange

Methods == {"GET", "HEAD"}
Conditionals == {"", "W/hi"}
AcceptHeaders == {"", "*/*", "text/html", "application/xml"}
NoCallback == [t |-> "undefined", v |-> ""]
\* The URL of a request to "/": the path the handler is matched on, and the
\* path of the original URL.
RootUrl == [pathname |-> "/", original |-> "/"]
Requests ==
  [ method : Methods, ifNoneMatch : Conditionals, accept : {"*/*"},
    callback : {NoCallback}, url : {RootUrl} ]
EtagSettings == {"none", "weak", "declines"}

Idle == [name |-> "none", pc |-> "idle", path |-> "", bytes |-> Undefined]

\* The serveStatic handler before it is invoked for the exchange.
NoStat == [kind |-> "none", info |-> [mtime |-> "", chunk |-> Undefined]]
NotInvoked ==
  [ pc |-> "idle", path |-> "", fullPath |-> "", forwardError |-> FALSE,
    stat |-> NoStat, rejected |-> FALSE, fsCalls |-> <<>>, beforeCalls |-> <<>> ]

\* serveStatic(root) with the default options, and no second exchange.
DefaultOptions == [fallthrough |-> TRUE, redirect |-> TRUE, before |-> FALSE]
NoExchange == [present |-> FALSE]
NoString == [str |-> <<>>, out |-> <<>>]

\* A new Response, and the request and application it belongs to.
New(requests, settings) ==
  /\ status = 200
  /\ headers = NoHeaders
  /\ body = Undefined
  /\ sent = <<>>
  /\ etagCalls = <<>>
  /\ nextCalls = <<>>
  /\ invoked = <<>>
  /\ req \in requests
  /\ app \in [etagFn : settings]
  /\ op = [name |-> "new", arg |-> Undefined, threw |-> FALSE, fresh |-> FALSE]
  /\ pre = [status |-> 200, headers |-> NoHeaders, body |-> Undefined, sent |-> <<>>,
            etagCalls |-> <<>>, nextCalls |-> <<>>, invoked |-> <<>>]
  /\ nops = 0
  /\ task = Idle
  /\ handler = NotInvoked

\* The middleware set up with one of the given options, serving one
\* exchange at a time.
Setup(opts) == options \in opts /\ other = NoExchange /\ slashes = NoString

OneFile == [exists |-> TRUE, version |-> 1, hasMtime |-> TRUE, changes |-> 0]

Init ==
  /\ New(Requests, EtagSettings) /\ budget = MaxOps /\ file = OneFile
  /\ Setup({DefaultOptions})

\* One operation called on the response: r is the response it leaves.
Leaves(r) ==
  /\ status' = r.status
  /\ headers' = r.headers
  /\ body' = r.body
  /\ sent' = r.sent
  /\ etagCalls' = r.etagCalls

Called(name, arg, r) ==
  /\ task.pc = "idle"
  /\ handler.pc \in {"idle", "done"}
  /\ nops < budget
  /\ nops' = nops + 1
  /\ Leaves(r)
  /\ op' = [name |-> name, arg |-> arg, threw |-> r.threw, fresh |-> r.fresh]
  /\ pre' = [status |-> status, headers |-> headers, body |-> body, sent |-> sent,
             etagCalls |-> etagCalls, nextCalls |-> nextCalls, invoked |-> invoked]
  /\ UNCHANGED <<req, app, budget, file, options, other, slashes>>

\* A synchronous operation.
Do(name, arg, r) == Called(name, arg, r) /\ task' = Idle /\ UNCHANGED handler

\* An asynchronous operation resumed after an await: it goes on to the next
\* await or ends, and its caller learns whether it threw.
Resumed(r, pc) ==
  /\ Leaves(r)
  /\ op' = [op EXCEPT !.threw = r.threw, !.fresh = r.fresh]
  /\ task' = [task EXCEPT !.pc = pc]
  /\ UNCHANGED <<pre, nops, req, app, budget, file, nextCalls, invoked, options,
                 handler, other, slashes>>

SetInputs ==
  { Val("Content-Type", "html"), Val("ETag", "W/hi"), Val("Content-Length", "5") }

Set ==
  \E a \in SetInputs :
    /\ Do("set", a, set(Cur, a.t, a.v))
    /\ UNCHANGED <<nextCalls, invoked>>

AppendOp ==
  \E a \in {Val("Transfer-Encoding", "chunked")} :
    /\ Do("append", a, append(Cur, a.t, a.v))
    /\ UNCHANGED <<nextCalls, invoked>>

Type ==
  \E t \in {"json"} :
    /\ Do("type", Str(t), type(Cur, t))
    /\ UNCHANGED <<nextCalls, invoked>>

Unset ==
  \E f \in {"ETag"} :
    /\ Do("unset", Str(f), unset(Cur, f))
    /\ UNCHANGED <<nextCalls, invoked>>

Vary ==
  \E f \in {"Origin", "*"} :
    /\ Do("vary", Str(f), vary(Cur, f))
    /\ UNCHANGED <<nextCalls, invoked>>

Cookie ==
  \E c \in {[name |-> "sid", value |-> "1", path |-> ""]} :
    /\ Do("cookie", Str(c.name), cookie(Cur, c))
    /\ UNCHANGED <<nextCalls, invoked>>

ClearCookie ==
  \E n \in {"sid"} :
    /\ Do("clearCookie", Str(n), clearCookie(Cur, n))
    /\ UNCHANGED <<nextCalls, invoked>>

SetStatus ==
  \E code \in {204, 304, 404} :
    /\ Do("setStatus", Val("number", statusText(code)), setStatus(Cur, code))
    /\ UNCHANGED <<nextCalls, invoked>>

\* A handler writing the public field body of the response.
AssignBody ==
  \E b \in {Str("old")} :
    /\ Do("body=", b, [Cur EXCEPT !.body = b])
    /\ UNCHANGED <<nextCalls, invoked>>

End ==
  \E b \in {Undefined, Str("x")} :
    /\ Do("end", b, end(Cur, b))
    /\ UNCHANGED <<nextCalls, invoked>>

SendInputs == {Str("hi"), True, Num42, Bytes, Reader, Obj, Null}

Send ==
  \E b \in SendInputs :
    /\ Do("send", b, send(Cur, b))
    /\ UNCHANGED <<nextCalls, invoked>>

Json ==
  \E b \in {Obj, Null} :
    /\ Do("json", b, json(Cur, b))
    /\ UNCHANGED <<nextCalls, invoked>>

SendStatus ==
  \E code \in {404} :
    /\ Do("sendStatus", Val("number", statusText(code)), sendStatus(Cur, code))
    /\ UNCHANGED <<nextCalls, invoked>>

Jsonp ==
  \E b \in {Obj, Str("a<LS>b")} :
    /\ Do("jsonp", b, jsonp(Cur, b))
    /\ UNCHANGED <<nextCalls, invoked>>

\* etag(chunk) called by a handler, on a string, on bytes or on file metadata.
Stats == Val("FileInfo", "stat")

Etag ==
  \E c \in {Str("hi"), Bytes, Stats} :
    /\ Do("etag", c, etag(Cur, c))
    /\ UNCHANGED <<nextCalls, invoked>>

Attachment ==
  \E f \in {"old.txt"} :
    /\ Do("attachment", Str(f), attachment(Cur, f))
    /\ UNCHANGED <<nextCalls, invoked>>

\* sendFile(path), up to the await of Deno.readFile.
SendFileCall ==
  \E path \in {"/x/report.pdf", "/x/notes"} :
    /\ Called("sendFile", Val(path, ""), sendFileBeforeRead(Cur, fromFileUrl(path)))
    /\ task' = [name |-> "sendFile", pc |-> "read", path |-> fromFileUrl(path),
                bytes |-> Undefined]
    /\ UNCHANGED <<nextCalls, invoked, handler>>

\* download(path, filename), up to the await of Deno.readFile in sendFile.
DownloadCall ==
  \E path \in {"/x/report.pdf"}, filename \in {"", "q3.txt"} :
    /\ Called("download", Val(path, filename),
              sendFileBeforeRead(downloadBeforeSendFile(Cur, path, filename),
                                 fromFileUrl(path)))
    /\ task' = [name |-> "download", pc |-> "read", path |-> fromFileUrl(path),
                bytes |-> Undefined]
    /\ UNCHANGED <<nextCalls, invoked, handler>>

\* await Deno.readFile(path) returns the bytes or throws.
ReadDone ==
  /\ task.pc = "read"
  /\ IF file.exists
       THEN /\ task' = [task EXCEPT !.pc = "stat", !.bytes = FileBytes]
            /\ UNCHANGED <<status, headers, body, sent, etagCalls, op, pre, nops, req,
                           app, budget, file, nextCalls, invoked, options, handler,
                           other, slashes>>
       ELSE Resumed(Rejected(Cur), "idle")

\* await Deno.stat(path) returns the metadata, and sendFile runs to its end,
\* or throws.
StatDone ==
  /\ task.pc = "stat"
  /\ IF file.exists
       THEN LET r == sendFileAfterStat(Cur, task.path, task.bytes, FileInfo)
            IN Resumed(IF r.threw THEN Rejected(r) ELSE r, "idle")
       ELSE Resumed(Rejected(Cur), "idle")

\* Another process rewrites the file, or removes it.
FileWrite ==
  /\ file.exists /\ file.changes < MaxFileChanges
  /\ file' = [file EXCEPT !.version = @ + 1, !.changes = @ + 1]
  /\ UNCHANGED <<status, headers, body, sent, etagCalls, nextCalls, invoked, req, app,
                 op, pre, nops, budget, task, options, handler, other, slashes>>

FileRemove ==
  /\ file.exists /\ file.changes < MaxFileChanges
  /\ file' = [file EXCEPT !.exists = FALSE, !.changes = @ + 1]
  /\ UNCHANGED <<status, headers, body, sent, etagCalls, nextCalls, invoked, req, app,
                 op, pre, nops, budget, task, options, handler, other, slashes>>

FormatInputs ==
  [ keys : {<<>>, <<"json", "html">>, <<"html", "text">>}, hasDefault : BOOLEAN ]

Format ==
  \E obj \in FormatInputs :
    LET f == format(Cur, obj) IN
    /\ Do("format", obj, f.res)
    /\ invoked' = IF f.handler # "" THEN Append(invoked, f.handler) ELSE invoked
    /\ nextCalls' = IF f.error # NoError THEN Append(nextCalls, f.error) ELSE nextCalls

\* The local variables with path, fullPath and forwardError declared in
\* serveStatic, outside the async function: an invocation resumes with what
\* the other invocation has written there.
LocalsInClosure(own, suspended) ==
  IF suspended.present /\ suspended.handler.pc # "idle"
    THEN [own EXCEPT !.path = suspended.handler.path,
                     !.fullPath = suspended.handler.fullPath,
                     !.forwardError = suspended.handler.forwardError]
    ELSE own

\* The local variables an invocation of the handler resumes with: its own,
\* declared inside the async function.
Locals(own, suspended) == own

\* The invocation of the handler for this exchange, as it stands.
Invocation ==
  [res |-> Cur, frame |-> Locals(handler, other), next |-> nextCalls, task |-> task]

\* The handler ran from one await to the next and left x.
Ran(x) ==
  /\ Leaves(x.res)
  /\ task' = x.task
  /\ handler' = x.frame
  /\ nextCalls' = x.next
  /\ UNCHANGED <<invoked, op, pre, nops, req, app, budget, file, options, other,
                 slashes>>

\* The router calls the handler serveStatic returned.
ServeStatic ==
  /\ handler.pc = "idle"
  /\ LET x == serveStaticCall(Invocation) IN
       /\ Called("serveStatic", Undefined, x.res)
       /\ task' = x.task
       /\ handler' = x.frame
       /\ nextCalls' = x.next
       /\ UNCHANGED invoked

\* await Deno.stat(fullPath) is answered.
StatAnswered ==
  /\ handler.pc = "stat"
  /\ Ran(afterStat(Invocation, StatAnswer(Invocation.frame.fullPath)))

\* await before(res, path, stat) resolves.
BeforeDone ==
  /\ handler.pc = "before"
  /\ Ran(afterBefore(Invocation))

\* await res.sendFile(fullPath) settles.
SendFileDone ==
  /\ handler.pc = "sendFile" /\ task.pc = "idle"
  /\ Ran(afterSendFile(Invocation, op.threw))

\* The exchange in progress is suspended at an await, or has ended, and the
\* other exchange, which has steps left, goes on.
Switch ==
  /\ other.present
  /\ other.handler.pc # "done"
  /\ other' = [ present |-> TRUE, status |-> status, headers |-> headers, body |-> body,
                sent |-> sent, etagCalls |-> etagCalls, nextCalls |-> nextCalls,
                invoked |-> invoked, req |-> req, op |-> op, pre |-> pre, nops |-> nops,
                task |-> task, handler |-> handler ]
  /\ status' = other.status
  /\ headers' = other.headers
  /\ body' = other.body
  /\ sent' = other.sent
  /\ etagCalls' = other.etagCalls
  /\ nextCalls' = other.nextCalls
  /\ invoked' = other.invoked
  /\ req' = other.req
  /\ op' = other.op
  /\ pre' = other.pre
  /\ nops' = other.nops
  /\ task' = other.task
  /\ handler' = other.handler
  /\ UNCHANGED <<app, budget, file, options, slashes>>

\* collapseLeadingSlashes applied to the string, and to its own result.
Collapse ==
  /\ Len(slashes.out) < MaxApplications
  /\ LET str == IF slashes.out = <<>> THEN slashes.str
                ELSE slashes.out[Len(slashes.out)]
     IN slashes' = [slashes EXCEPT !.out = Append(@, collapseLeadingSlashes(str))]
  /\ UNCHANGED <<status, headers, body, sent, etagCalls, nextCalls, invoked, req, app,
                 op, pre, nops, budget, task, file, options, handler, other>>

\* Any operation of the response, in any order.
Next ==
  \/ Set
  \/ AppendOp
  \/ Type
  \/ Unset
  \/ Vary
  \/ Cookie
  \/ ClearCookie
  \/ SetStatus
  \/ AssignBody
  \/ End
  \/ Send
  \/ Json
  \/ SendStatus
  \/ Etag
  \/ Format

Spec == Init /\ [][Next]_vars

\* The operations that set up a response, then send.
SendInit ==
  /\ New(Requests, {"none", "weak"}) /\ budget = MaxSendOps /\ file = OneFile
  /\ Setup({DefaultOptions})

SendNext ==
  \/ Set
  \/ SetStatus
  \/ AssignBody
  \/ Send

SendSpec == SendInit /\ [][SendNext]_vars

\* File transfers, with the file changing underneath.
FileInit ==
  /\ New([method : Methods, ifNoneMatch : {""}, accept : {"*/*"}, callback : {NoCallback},
          url : {RootUrl}],
         {"none", "weak"})
  /\ budget = MaxFileOps
  /\ file \in [exists : BOOLEAN, version : {1}, hasMtime : BOOLEAN, changes : {0}]
  /\ Setup({DefaultOptions})

FileNext ==
  \/ Attachment
  \/ SendFileCall
  \/ DownloadCall
  \/ ReadDone
  \/ StatDone
  \/ FileWrite
  \/ FileRemove

FileSpec == FileInit /\ [][FileNext]_vars

\* The validator: sends and file transfers on responses with and without an
\* ETag, under every ETag setting.
EtagInit ==
  /\ New(Requests, EtagSettings)
  /\ budget = MaxEtagOps
  /\ file = OneFile
  /\ Setup({DefaultOptions})

EtagNext ==
  \/ Set
  \/ SetStatus
  \/ Send
  \/ SendFileCall
  \/ ReadDone
  \/ StatDone

EtagSpec == EtagInit /\ [][EtagNext]_vars

\* Content negotiation, over the Accept headers of the request.
FormatInit ==
  /\ New([method : {"GET"}, ifNoneMatch : {""}, accept : AcceptHeaders,
          callback : {NoCallback}, url : {RootUrl}], {"weak"})
  /\ budget = MaxFormatOps
  /\ file = OneFile
  /\ Setup({DefaultOptions})

FormatNext ==
  \/ Vary
  \/ Type
  \/ Format

FormatSpec == FormatInit /\ [][FormatNext]_vars

\* JSONP, over the callback parameters a query can hold: none, an empty one,
\* a name, a name with characters outside the identifier set, a repeated
\* parameter, and a nested one (an object).
Callbacks ==
  { NoCallback, Str(""), Str("cb"), Str("al(ert)"), Val("array", "cb"),
    Val("object", "{x:1}") }

JsonpInit ==
  /\ New([method : Methods, ifNoneMatch : {""}, accept : {"*/*"}, callback : Callbacks,
          url : {RootUrl}],
         {"none", "weak"})
  /\ budget = MaxJsonpOps
  /\ file = OneFile
  /\ Setup({DefaultOptions})

JsonpNext ==
  \/ Set
  \/ Jsonp

JsonpSpec == JsonpInit /\ [][JsonpNext]_vars

\* serveStatic, over the methods, the URLs (a request to the mount point
\* /assets with and without a trailing slash, a directory with and without
\* one and with a doubled leading slash, a file, and a path that names
\* nothing) and the options.
StaticMethods == {"GET", "HEAD", "POST"}
StaticUrls ==
  { [pathname |-> "/", original |-> "/assets"],
    [pathname |-> "/", original |-> "/assets/"],
    [pathname |-> "/dir", original |-> "/dir"],
    [pathname |-> "/dir/", original |-> "/dir/"],
    [pathname |-> "//dir", original |-> "//dir"],
    [pathname |-> "/file.txt", original |-> "/file.txt"],
    [pathname |-> "/missing", original |-> "/missing"] }
AllOptions == [fallthrough : BOOLEAN, redirect : BOOLEAN, before : BOOLEAN]

StaticInit ==
  /\ New([method : StaticMethods, ifNoneMatch : {""}, accept : {"*/*"},
          callback : {NoCallback}, url : StaticUrls], {"weak"})
  /\ budget = MaxStaticOps
  /\ file \in [exists : BOOLEAN, version : {1}, hasMtime : {TRUE}, changes : {0}]
  /\ Setup(AllOptions)

StaticNext ==
  \/ Set
  \/ ServeStatic
  \/ StatAnswered
  \/ BeforeDone
  \/ ReadDone
  \/ StatDone
  \/ SendFileDone
  \/ FileWrite
  \/ FileRemove

StaticSpec == StaticInit /\ [][StaticNext]_vars

\* Two exchanges through one serveStatic handler, their steps interleaved at
\* the awaits, over a file system that does not change meanwhile.
PairRequests ==
  [ method : {"GET", "POST"}, ifNoneMatch : {""}, accept : {"*/*"},
    callback : {NoCallback},
    url : {u \in StaticUrls : u.pathname \in {"/dir", "/dir/", "/file.txt", "/missing"}} ]

\* An exchange that has just arrived, held suspended.
Arrived(request) ==
  [ present |-> TRUE, status |-> 200, headers |-> NoHeaders, body |-> Undefined,
    sent |-> <<>>, etagCalls |-> <<>>, nextCalls |-> <<>>, invoked |-> <<>>,
    req |-> request,
    op |-> [name |-> "new", arg |-> Undefined, threw |-> FALSE, fresh |-> FALSE],
    pre |-> [status |-> 200, headers |-> NoHeaders, body |-> Undefined, sent |-> <<>>,
             etagCalls |-> <<>>, nextCalls |-> <<>>, invoked |-> <<>>],
    nops |-> 0, task |-> Idle, handler |-> NotInvoked ]

PairInit ==
  /\ New(PairRequests, {"weak"})
  /\ budget = MaxStaticOps
  /\ file = OneFile
  /\ options \in AllOptions
  /\ other \in {Arrived(request) : request \in PairRequests}
  /\ slashes = NoString

PairNext ==
  \/ ServeStatic
  \/ StatAnswered
  \/ BeforeDone
  \/ ReadDone
  \/ StatDone
  \/ SendFileDone
  \/ Switch

PairSpec == PairInit /\ [][PairNext]_vars

\* collapseLeadingSlashes, over every string of slashes, letters and dots up
\* to a length.
Alphabet == {"/", "a", "."}
Strings == UNION {[1..n -> Alphabet] : n \in 0..MaxLen}

CollapseInit ==
  /\ New([method : {"GET"}, ifNoneMatch : {""}, accept : {"*/*"},
          callback : {NoCallback}, url : {RootUrl}], {"none"})
  /\ budget = 0
  /\ file = OneFile
  /\ options = DefaultOptions
  /\ other = NoExchange
  /\ slashes \in [str : Strings, out : {<<>>}]

CollapseNext ==
  \/ Collapse

CollapseSpec == CollapseInit /\ [][CollapseNext]_vars

----------------------------------------------------------------------------
\* Properties of the transmission

Transmitted == Len(sent) > Len(pre.sent)
LastSent == sent[Len(sent)]
FirstCall == pre.sent = <<>>
EmptyBody(b) == b.t = "undefined" \/ (b.t = "string" /\ b.v = "")
Mutators ==
  {"set", "append", "type", "unset", "vary", "cookie", "clearCookie", "setStatus"}

\* C1: over any sequence of terminal calls on one Response, req.respond is
\* invoked at most once.
RespondAtMostOnce == Len(sent) <= 1

\* C2: a header-mutating call made after the response was transmitted leaves
\* the headers and the status as they were, or reports a fault.
CommittedResponseIsFrozen ==
  (op.name \in Mutators /\ pre.sent # <<>>)
    => (op.threw \/ (headers = pre.headers /\ status = pre.status))

\* C3: one send(body) on a response not yet transmitted, for a string, a
\* boolean, a number, a byte array, a reader or a plain object, invokes
\* req.respond exactly once, also where send delegates to json.
SendKinds == {"string", "boolean", "number", "Uint8Array", "Reader", "object"}

SendRespondsExactlyOnce ==
  (op.name = "send" /\ op.arg.t \in SendKinds /\ FirstCall)
    => (~op.threw /\ Len(sent) = 1)

\* A send of a boolean, which goes through json and back into send, on a
\* response whose status was set before, has transmitted once.
SendThroughJsonWitness ==
  /\ op.name = "send" /\ op.arg = True /\ FirstCall
  /\ pre.status = 404
  /\ Len(sent) = 1 /\ sent[1].body = Str("true")

\* C4: send(body) of null, a boolean, a number or a plain object, on a
\* response with no Content-Type, never fails and transmits the JSON text of
\* the value with the JSON Content-Type.  Stated for the responses that carry
\* an entity (a GET that is not fresh, a status other than 204 and 304), where
\* nothing else in send touches the body or the Content-Type.
JsonKinds == {"null", "boolean", "number", "object"}

SendOfNonTextIsJson ==
  ( /\ op.name = "send" /\ op.arg.t \in JsonKinds /\ FirstCall
    /\ pre.headers["content-type"] = Absent
    /\ req.method = "GET" /\ ~op.fresh /\ pre.status \notin {204, 304} )
    => ( /\ ~op.threw
         /\ Len(sent) = 1
         /\ sent[1].body = Str(stringify(op.arg))
         /\ sent[1].headers["content-type"] = JsonType )

\* C5: a response that send transmits with final status 204 or 304 has no
\* Content-Type, Content-Length or Transfer-Encoding and an empty body,
\* whatever the response held before the call.
NoEntityOn204And304 ==
  (op.name = "send" /\ FirstCall /\ Transmitted /\ LastSent.status \in {204, 304})
    => ( /\ LastSent.headers["content-type"] = Absent
         /\ LastSent.headers["content-length"] = Absent
         /\ LastSent.headers["transfer-encoding"] = Absent
         /\ EmptyBody(LastSent.body) )

\* C6: when the request is fresh at the time of send, the transmitted status
\* is 304 whatever status was set; freshness is read after the ETag of the
\* body was computed and set, so a request whose conditional header names
\* that tag is fresh; and the 304 has an empty body and no Content-Type and
\* Content-Length.
FreshAgainstComputedTag ==
  /\ op.arg.t = "string"
  /\ pre.headers["etag"] = Absent
  /\ app.etagFn = "weak"
  /\ req.ifNoneMatch = etagFn(op.arg)

FreshSendIsEmpty304 ==
  (op.name = "send" /\ FirstCall /\ Transmitted)
    => /\ FreshAgainstComputedTag => op.fresh
       /\ op.fresh =>
            /\ LastSent.status = 304
            /\ EmptyBody(LastSent.body)
            /\ LastSent.headers["content-type"] = Absent
            /\ LastSent.headers["content-length"] = Absent

\* C7: for a HEAD request, what send, json and sendStatus transmit has no
\* body, for every body argument and every prior state of the response.
HeadHasNoBody ==
  (op.name \in {"send", "json", "sendStatus"} /\ req.method = "HEAD"
     /\ FirstCall /\ Transmitted)
    => EmptyBody(LastSent.body)

\* C8: download sets Content-Disposition: attachment before it delegates to
\* sendFile, and when its promise rejects the response has no
\* Content-Disposition header, also when one existed before the call.
DownloadDisposition ==
  LET name == basename(IF op.arg.v # "" THEN op.arg.v ELSE op.arg.t)
      wanted == contentDisposition("attachment", name)
  IN op.name = "download" =>
       /\ task.pc # "idle" => headers["content-disposition"] = wanted
       /\ (task.pc = "idle" /\ ~op.threw) =>
            (Transmitted /\ LastSent.headers["content-disposition"] = wanted)
       /\ (task.pc = "idle" /\ op.threw) =>
            headers["content-disposition"] = Absent

\* A download that failed at the stat, after its read had succeeded, on a
\* response that had a Content-Disposition header before the call.
FailedDownloadWitness ==
  /\ op.name = "download" /\ task.pc = "idle" /\ op.threw
  /\ task.bytes # Undefined
  /\ pre.headers["content-disposition"] # Absent
  /\ headers["content-disposition"] = Absent

\* C9: format always adds Accept to Vary and then takes exactly one of three
\* outcomes: an acceptable key other than default sets the Content-Type to
\* its type and has its handler invoked; otherwise default, when present, is
\* invoked; otherwise next is called once with a 406 error that lists the
\* normalized types of all the keys offered.  The default key is not
\* negotiated.
VaryNamesAccept ==
  \E i \in 1..Len(VaryFields(headers["vary"])) :
    VaryFields(headers["vary"])[i] \in {"Accept", "*"}

FormatTakesOneOutcome ==
  op.name = "format" =>
    LET keys == op.arg.keys
        offered == {keys[i] : i \in 1..Len(keys)}
        matching == {k \in offered : Acceptable(normalizeType(k))}
    IN /\ VaryNamesAccept
       /\ IF matching # {}
            THEN /\ \E k \in matching :
                      /\ invoked = Append(pre.invoked, k)
                      /\ headers["content-type"] = contentType(normalizeType(k))
                 /\ nextCalls = pre.nextCalls
          ELSE IF op.arg.hasDefault
            THEN /\ invoked = Append(pre.invoked, "default")
                 /\ nextCalls = pre.nextCalls
                 /\ headers["content-type"] = pre.headers["content-type"]
          ELSE /\ invoked = pre.invoked
               /\ nextCalls =
                    Append(pre.nextCalls,
                           [ status |-> 406,
                             types |-> [i \in 1..Len(keys) |-> normalizeType(keys[i])] ])
               /\ headers["content-type"] = pre.headers["content-type"]

\* format({json, html}) on a request that accepts only application/xml, with
\* no default: next was called with the 406 error listing both types.
NotAcceptableWitness ==
  /\ op.name = "format" /\ req.accept = "application/xml"
  /\ op.arg = [keys |-> <<"json", "html">>, hasDefault |-> FALSE]
  /\ nextCalls = <<[status |-> 406, types |-> <<"application/json", "text/html">>]>>
  /\ invoked = <<>>
  /\ headers["vary"] = "Accept"

\* C10: etag(chunk) is a no-op (the ETag function is not called, no header
\* changes) when no ETag function is configured or when the input is not
\* length-bearing, such as file metadata; otherwise it calls the function
\* and sets ETag only if the function returns a non-empty value.
LengthBearing(chunk) == chunk.t \in {"string", "Uint8Array"}

EtagOnlyOfLengthBearing ==
  op.name = "etag" =>
    IF app.etagFn = "none" \/ ~LengthBearing(op.arg)
      THEN etagCalls = pre.etagCalls /\ headers = pre.headers
      ELSE /\ etagCalls = Append(pre.etagCalls, op.arg)
           /\ headers = IF etagFn(op.arg) # ""
                          THEN [pre.headers EXCEPT !["etag"] = etagFn(op.arg)]
                          ELSE pre.headers

\* C11: jsonp(body) with a callback parameter that is present and non-empty
\* transmits X-Content-Type-Options: nosniff, a script Content-Type and the
\* payload wrapped in the guarded call; in every other case (parameter
\* absent, empty or not a string) it transmits X-Content-Type-Options:
\* nosniff and a JSON Content-Type, whatever headers were set before.
\* Stated for the responses that carry an entity (not fresh, status other
\* than 204 and 304), whose Content-Type send leaves alone.
CallbackName ==
  IF req.callback.t \in {"string", "array"} THEN restrictCharset(req.callback.v) ELSE ""

JsonpSetsTypeAndNosniff ==
  (op.name = "jsonp" /\ FirstCall /\ ~op.fresh /\ pre.status \notin {204, 304})
    => /\ ~op.threw /\ Len(sent) = 1
       /\ sent[1].headers["x-content-type-options"] = "nosniff"
       /\ IF CallbackName # ""
            THEN /\ sent[1].headers["content-type"] = ScriptType
                 /\ req.method = "GET" =>
                      sent[1].body =
                        Str("/**/ typeof " \o CallbackName \o " === 'function' && "
                              \o CallbackName \o "("
                              \o escapeSeparators(stringify(op.arg)) \o ");")
            ELSE sent[1].headers["content-type"] = JsonType

\* C12: when the read of the file or the read of its metadata fails,
\* sendFile rejects to its caller, req.respond is not invoked for that call,
\* and the headers and the status of the response are those it had before
\* the call; a sendFile that does not reject has transmitted.
SendFileFailureLeavesResponse ==
  (op.name = "sendFile" /\ task.pc = "idle")
    => /\ task.bytes = Undefined => op.threw
       /\ op.threw =>
            (sent = pre.sent /\ headers = pre.headers /\ status = pre.status)
       /\ ~op.threw => Len(sent) = Len(pre.sent) + 1

\* A sendFile of a file removed between its read and its stat, on a response
\* that held a Content-Type and a Content-Disposition before: it rejected
\* and nothing was transmitted.
SendFileStatFailedWitness ==
  /\ op.name = "sendFile" /\ op.arg.t = "/x/report.pdf"
  /\ task.pc = "idle" /\ op.threw
  /\ task.bytes # Undefined /\ ~file.exists
  /\ pre.headers["content-disposition"] # Absent
  /\ headers["content-type"] = TextType
  /\ sent = <<>>

\* C13: sendFile takes the bytes and the metadata of the file as one unit:
\* the Last-Modified and ETag it transmits come from the same version of the
\* file as the body it transmits, also when another process rewrites the
\* file while sendFile is in progress.
SendFileIsOneVersion ==
  ( /\ op.name = "sendFile" /\ task.pc = "idle" /\ Transmitted
    /\ LastSent.body.t = "Uint8Array" )
    => \E v \in 1..file.version :
         /\ LastSent.body.v = "bytes" \o ToString(v)
         /\ LastSent.headers["last-modified"] \in {Absent, "mtime" \o ToString(v)}
         /\ (pre.headers["etag"] = Absent /\ app.etagFn = "weak")
              => LastSent.headers["etag"] = "W/stat" \o ToString(v)

----------------------------------------------------------------------------
\* Properties of serveStatic

ContinuedWith(err) == nextCalls = Append(pre.nextCalls, err)
NotContinued == nextCalls = pre.nextCalls
Untouched ==
  status = pre.status /\ headers = pre.headers /\ body = pre.body /\ sent = pre.sent
TransmittedOnce == Len(sent) = Len(pre.sent) + 1

\* C14: for a request whose method is neither GET nor HEAD serveStatic makes
\* no file system access; with fallthrough it calls the continuation once
\* with no error and leaves the response untouched; without fallthrough it
\* transmits status 405 with Allow: GET, HEAD and does not call the
\* continuation.
OtherMethodsAreRejected ==
  (op.name = "serveStatic" /\ req.method \notin {"GET", "HEAD"})
    => /\ handler.pc = "done" /\ ~handler.rejected
       /\ handler.fsCalls = <<>> /\ task = Idle
       /\ IF options.fallthrough
            THEN ContinuedWith(NoError) /\ Untouched
            ELSE /\ NotContinued
                 /\ TransmittedOnce
                 /\ LastSent.status = 405
                 /\ LastSent.headers["allow"] = "GET, HEAD"

\* A POST for the file, on a response that held a Content-Type, served
\* without fallthrough: the 405 was transmitted.
MethodNotAllowedWitness ==
  /\ op.name = "serveStatic" /\ req.method = "POST" /\ ~options.fallthrough
  /\ req.url.pathname = "/file.txt" /\ file.exists
  /\ pre.headers["content-type"] = HtmlType
  /\ Len(sent) = 1 /\ sent[1].status = 405 /\ sent[1].headers["allow"] = "GET, HEAD"
  /\ nextCalls = <<>>

\* C15: when the stat of the resolved path fails serveStatic transmits
\* nothing and calls the continuation exactly once, with the stat error when
\* fallthrough is false and with no error when it is enabled.
StatFailureContinues ==
  (op.name = "serveStatic" /\ handler.stat.kind = "error")
    => /\ handler.pc = "done" /\ ~handler.rejected
       /\ sent = pre.sent
       /\ ContinuedWith(IF options.fallthrough THEN NoError ELSE NotFound)

\* A GET for a path that names nothing, served without fallthrough: the
\* continuation was called with the error of the stat.
StatFailureWitness ==
  /\ op.name = "serveStatic" /\ req.method = "GET" /\ ~options.fallthrough
  /\ handler.fullPath = "/srv/missing" /\ handler.stat.kind = "error"
  /\ handler.fsCalls = <<"/srv/missing">>
  /\ nextCalls = <<NotFound>> /\ sent = <<>>

\* C16: with redirect enabled, a GET or HEAD whose path resolves to a
\* directory and has no trailing slash is answered with a 301 whose Location
\* is the original URL path plus a slash, its leading slashes collapsed to
\* one, with Content-Security-Policy: default-src 'none',
\* X-Content-Type-Options: nosniff and an HTML body linking to the location,
\* and the continuation is not called.
RedirectLocation ==
  CASE req.url.original = "/dir" -> "/dir/"
    [] req.url.original = "//dir" -> "/dir/"
    [] req.url.original = "/assets" -> "/assets/"
    [] OTHER -> req.url.original \o "/"

DirectoryIsRedirected ==
  ( /\ op.name = "serveStatic" /\ handler.pc = "done"
    /\ options.redirect /\ handler.stat.kind = "directory"
    /\ ~endsWithSlash(handler.fullPath) )
    => /\ ~handler.rejected
       /\ NotContinued
       /\ TransmittedOnce
       /\ LastSent.status = 301
       /\ LastSent.headers["location"] = RedirectLocation
       /\ LastSent.headers["content-security-policy"] = "default-src 'none'"
       /\ LastSent.headers["x-content-type-options"] = "nosniff"
       /\ LastSent.headers["content-type"] = HtmlType
       /\ req.method = "GET" =>
            LastSent.body =
              Str(createHtmlDocument(
                    "Redirecting",
                    "Redirecting to <a href=\"" \o RedirectLocation \o "\">"
                      \o RedirectLocation \o "</a>"))

\* C17: for a path that resolves to a directory, when redirect is disabled
\* or the path has a trailing slash already, serveStatic transmits nothing
\* and calls the continuation exactly once, with a 404 error when
\* fallthrough is disabled and with no error when it is enabled.
DirectoryIsNotFound ==
  ( /\ op.name = "serveStatic" /\ handler.stat.kind = "directory"
    /\ (~options.redirect \/ endsWithSlash(handler.path)) )
    => /\ handler.pc = "done" /\ ~handler.rejected
       /\ sent = pre.sent
       /\ ContinuedWith(IF options.fallthrough THEN NoError ELSE createError(404))

\* A GET for /dir, a directory, with redirect disabled and fallthrough
\* disabled: the continuation was called with a 404.
DirectoryNotFoundWitness ==
  /\ op.name = "serveStatic" /\ req.method = "GET"
  /\ ~options.redirect /\ ~options.fallthrough
  /\ handler.path = "/dir" /\ handler.stat.kind = "directory"
  /\ nextCalls = <<createError(404)>> /\ sent = <<>>

\* C19: for a path that resolves to a regular file serveStatic invokes the
\* before hook, when one is provided, exactly once with (response, path,
\* stat), after the stat and before any byte of the file is read or
\* transmitted, and then transfers the file; the hook is never invoked for
\* rejected methods, stat failures or directories.  When the transfer fails
\* (also when the file vanishes between the stat and the read) nothing is
\* transmitted and the continuation is called once, with the error when
\* fallthrough is disabled and with no error otherwise.
BeforeHookThenTransfer ==
  op.name = "serveStatic" =>
    /\ handler.beforeCalls =
         IF handler.stat.kind = "file" /\ options.before
           THEN << [ path |-> handler.path, stat |-> handler.stat.info,
                     read |-> FALSE, sent |-> pre.sent ] >>
           ELSE <<>>
    /\ handler.pc = "before" => (task = Idle /\ sent = pre.sent)
    /\ (handler.stat.kind = "file" /\ handler.pc = "done") =>
         /\ ~handler.rejected
         /\ IF op.threw
              THEN /\ sent = pre.sent
                   /\ ContinuedWith(IF options.fallthrough THEN NoError ELSE NotFound)
              ELSE /\ TransmittedOnce /\ NotContinued
                   /\ LastSent.headers["content-type"] = TextType
                   /\ req.method = "GET" => LastSent.body.t = "Uint8Array"

\* A GET for the file with a before hook and without fallthrough, the file
\* removed between the stat and the read: the hook was invoked once, nothing
\* was transmitted, and the continuation was called with the error.
VanishedFileWitness ==
  /\ op.name = "serveStatic" /\ req.method = "GET"
  /\ options.before /\ ~options.fallthrough
  /\ handler.stat.kind = "file" /\ handler.pc = "done"
  /\ op.threw /\ task.bytes = Undefined
  /\ Len(handler.beforeCalls) = 1
  /\ nextCalls = <<NotFound>> /\ sent = <<>>

\* C20: the fallthrough flag fixes the kind of every continuation call of
\* serveStatic: with fallthrough enabled the continuation is never called
\* with an error (wrong method, stat failure, directory, transfer failure),
\* with fallthrough disabled it is never called without one.
FallthroughFixesContinuation ==
  op.name = "serveStatic" =>
    \A i \in 1..Len(nextCalls) :
      i > Len(pre.nextCalls) => (nextCalls[i] = NoError <=> options.fallthrough)

\* A HEAD for the file served with fallthrough, the file removed between
\* the read and the stat of sendFile: the continuation was called with no
\* error.
SilentTransferFailureWitness ==
  /\ op.name = "serveStatic" /\ req.method = "HEAD" /\ options.fallthrough
  /\ handler.stat.kind = "file" /\ handler.pc = "done"
  /\ op.threw /\ task.bytes # Undefined
  /\ nextCalls = <<NoError>> /\ sent = <<>>

\* The handler invoked for the request of this exchange on a new response
\* and run from await to await with no other exchange in between.
NewInvocation ==
  [ res |-> [ status |-> 200, headers |-> NoHeaders, body |-> Undefined, sent |-> <<>>,
              etagCalls |-> <<>>, threw |-> FALSE, fresh |-> FALSE ],
    frame |-> NotInvoked, next |-> <<>>, task |-> Idle ]

HandledAlone ==
  LET x1 == serveStaticCall(NewInvocation)
      x2 == IF x1.frame.pc = "stat"
              THEN afterStat(x1, StatAnswer(x1.frame.fullPath)) ELSE x1
      x3 == IF x2.frame.pc = "before" THEN afterBefore(x2) ELSE x2
  IN IF x3.frame.pc # "sendFile" THEN x3
     ELSE IF ~file.exists THEN afterSendFile(x3, TRUE)
     ELSE LET r == sendFileAfterStat(x3.res, x3.task.path, FileBytes, FileInfo)
          IN afterSendFile([x3 EXCEPT !.res = r], r.threw)

Outcome(x) ==
  [ status |-> x.res.status, headers |-> x.res.headers, body |-> x.res.body,
    sent |-> x.res.sent, next |-> x.next, rejected |-> x.frame.rejected,
    hooks |-> Len(x.frame.beforeCalls) ]

\* C18: two exchanges handled by the same serveStatic handler, their steps
\* interleaved at the awaits (stat, before hook, read, transmission), are
\* independent: the outcome of each (status, headers, body, what was
\* transmitted, the continuation calls, whether the handler threw) is the
\* one it has when it is handled alone.
ExchangesAreIndependent ==
  (other.present /\ op.name = "serveStatic" /\ handler.pc = "done")
    => Outcome(Invocation) = Outcome(HandledAlone)

\* A request for a path that names nothing has been handed to the
\* continuation while the exchange of a GET for the file was suspended in
\* the middle of its transfer, between the read and the stat of sendFile.
InterleavedTransfersWitness ==
  /\ other.present
  /\ other.handler.pc = "sendFile" /\ other.task.pc = "stat"
  /\ other.req.method = "GET" /\ other.handler.fullPath = FilePath
  /\ op.name = "serveStatic" /\ handler.pc = "done"
  /\ req.url.pathname = "/missing" /\ handler.stat.kind = "error"
  /\ sent = <<>> /\ Len(nextCalls) = 1

\* C21: every invocation of the serveStatic handler, for every method,
\* option combination and file system outcome, with a before hook that is
\* absent or returns normally, completes in exactly one of two ways: the
\* continuation was called exactly once and nothing was transmitted, or the
\* response was transmitted exactly once and the continuation was never
\* called; it never completes having done neither or both, and its promise
\* never rejects.
HandlerEndsOneWay ==
  (op.name = "serveStatic" /\ handler.pc = "done")
    => /\ ~handler.rejected
       /\ \/ (Len(nextCalls) = Len(pre.nextCalls) + 1 /\ sent = pre.sent)
          \/ (TransmittedOnce /\ NotContinued)

\* C22: send and sendFile never replace an ETag that is set on the response:
\* the ETag function is called, and its tag set, only when no ETag is
\* present, and for send only when the body is a string or a byte array,
\* never for a reader; and the ETag present at the transmission is
\* transmitted, also with status 204 or 304.
NewEtagCalls == SubSeq(etagCalls, Len(pre.etagCalls) + 1, Len(etagCalls))

\* The tag the calls of the ETag function made by the operation have set.
ComputedTag ==
  LET tagged == {i \in 1..Len(NewEtagCalls) : etagFn(NewEtagCalls[i]) # ""}
  IN IF tagged = {} THEN Absent
     ELSE etagFn(NewEtagCalls[CHOOSE i \in tagged : \A j \in tagged : i <= j])

EtagIsKept ==
  ( /\ op.name \in {"send", "sendFile"} /\ task.pc = "idle" /\ ~op.threw
    /\ FirstCall /\ Transmitted )
    => /\ pre.headers["etag"] # Absent =>
            (NewEtagCalls = <<>> /\ LastSent.headers["etag"] = pre.headers["etag"])
       /\ pre.headers["etag"] = Absent =>
            /\ LastSent.headers["etag"] = ComputedTag
            /\ \A i \in 1..Len(NewEtagCalls) :
                 /\ NewEtagCalls[i].t # "Reader"
                 /\ \A j \in 1..(i - 1) : etagFn(NewEtagCalls[j]) = ""
       /\ (op.name = "send" /\ op.arg.t = "Reader") => NewEtagCalls = <<>>
       /\ headers["etag"] = LastSent.headers["etag"]

\* A send of a string answered 304 for a request that is fresh against the
\* ETag set before the call: the function was not called and the 304 carries
\* that ETag.
KeptOn304Witness ==
  /\ op.name = "send" /\ op.arg = Str("hi") /\ app.etagFn = "weak"
  /\ pre.headers["etag"] = "W/hi" /\ op.fresh
  /\ Len(sent) = 1 /\ sent[1].status = 304 /\ sent[1].headers["etag"] = "W/hi"
  /\ etagCalls = <<>>

\* C23: serveStatic treats the path of the request as empty exactly when the
\* path relative to the mount is "/" and the path of the original URL does
\* not end with a slash; the path joined against the root is then the root
\* itself, and in every other case the relative path is used unchanged.
AtMountWithoutSlash ==
  req.url.pathname = "/" /\ req.url.original \notin {"/", "/assets/"}

MountPathIsEmptied ==
  (op.name = "serveStatic" /\ handler.fsCalls # <<>>)
    => /\ handler.path = "" <=> AtMountWithoutSlash
       /\ AtMountWithoutSlash =>
            (handler.fullPath = RootPath /\ handler.fsCalls = <<RootPath>>)
       /\ ~AtMountWithoutSlash =>
            /\ handler.path = req.url.pathname
            /\ handler.fullPath = join(RootPath, req.url.pathname)
            /\ handler.fsCalls = <<handler.fullPath>>

\* A GET for /assets, the mount point, without a trailing slash: the stat
\* was made on the root itself, which is a directory.
MountRequestWitness ==
  /\ op.name = "serveStatic" /\ req.method = "GET"
  /\ req.url = [pathname |-> "/", original |-> "/assets"]
  /\ handler.path = "" /\ handler.fullPath = "/srv"
  /\ handler.fsCalls = <<"/srv">>
  /\ handler.stat.kind = "directory"

\* C24: collapseLeadingSlashes returns, for every string with two or more
\* leading slashes, the same string with exactly one leading slash, and
\* every other string unchanged; its result never starts with two slashes,
\* and applying it twice gives what applying it once gives.
LeadingSlashes(str) ==
  CHOOSE n \in 0..Len(str) :
    /\ \A i \in 1..n : str[i] = "/"
    /\ n < Len(str) => str[n + 1] # "/"

CollapseLeavesOneSlash ==
  \A k \in 1..Len(slashes.out) :
    LET str == IF k = 1 THEN slashes.str ELSE slashes.out[k - 1]
        out == slashes.out[k]
        n == LeadingSlashes(str)
    IN /\ n >= 2 => out = <<"/">> \o SubSeq(str, n + 1, Len(str))
       /\ n < 2 => out = str
       /\ ~(Len(out) >= 2 /\ out[1] = "/" /\ out[2] = "/")
       /\ k >= 2 => out = slashes.out[1]

\* "///a" has been collapsed to "/a", and "/a" to itself.
CollapsedTwiceWitness ==
  /\ slashes.str = <<"/", "/", "/", "a">>
  /\ slashes.out = << <<"/", "a">>, <<"/", "a">> >>

====
